---- MODULE Spec2Model ----
(***************************************************************************)
(* SkillForge: the skill-compatibility scorer (SkillMatcher.calculateMatch) *)
(* and the external semantic-match call it awaits (analyzeSkillMatch).      *)
(***************************************************************************)
EXTENDS Integers, Sequences, FiniteSets, TLC

(***************************************************************************)
(* Bounds of the model.                                                     *)
(***************************************************************************)
MaxUserLen == 2
MaxProjLen == 4
NumCalls == 2
MaxJoins == 2

(***************************************************************************)
(* Strings.  A skill label is a word written in some letter case and with   *)
(* or without surrounding whitespace.  `word` is the label's lowercase,     *)
(* unpadded text; `caps` says the label is written with capital letters;    *)
(* `pad` says it carries leading/trailing whitespace.  A string literal of  *)
(* the source (a table key or member) is Str(w): all lowercase, unpadded.   *)
(***************************************************************************)
Str(w) == [word |-> w, caps |-> FALSE, pad |-> FALSE]

\* an array literal of the source
Literals(arr) == [i \in 1..Len(arr) |-> Str(arr[i])]

toLowerCase(s) == [s EXCEPT !.caps = FALSE]

trim(s) == [s EXCEPT !.pad = FALSE]

\* a normalisation that trims but forgets to lowercase
NormalizeNoLower(s) == trim(s)

\* a normalisation that lowercases but forgets to trim
NormalizeNoTrim(s) == toLowerCase(s)

Normalize(s) == trim(toLowerCase(s))

\* arr.map(s => s.toLowerCase().trim())
NormalizeAll(arr) == [i \in 1..Len(arr) |-> Normalize(arr[i])]

(***************************************************************************)
(* Arrays.                                                                  *)
(***************************************************************************)
Includes(arr, x) == \E i \in 1..Len(arr) : arr[i] = x

Slice(arr, n) == SubSeq(arr, 1, IF Len(arr) < n THEN Len(arr) ELSE n)

Elems(arr) == {arr[i] : i \in 1..Len(arr)}

RECURSIVE Dedup(_)
Dedup(arr) ==
    IF arr = <<>> THEN <<>>
    ELSE LET front == Dedup(SubSeq(arr, 1, Len(arr) - 1))
             last  == arr[Len(arr)]
         IN  IF Includes(front, last) THEN front ELSE Append(front, last)

(***************************************************************************)
(* Numbers.  A JavaScript number is NaN or a rational num/den (den > 0);    *)
(* the field t = "undefined" is the value undefined (a missing property).   *)
(* The scorer never divides a non-zero number by zero (every numerator is   *)
(* the length of a filter of the array whose length is the denominator), so *)
(* Infinity is not represented.  Arithmetic is exact: the binary rounding   *)
(* of a double is not modelled.                                             *)
(***************************************************************************)
Num(n) == [t |-> "number", nan |-> FALSE, num |-> n, den |-> 1]

Rat(n, d) == [t |-> "number", nan |-> FALSE, num |-> n, den |-> d]

NaN == [t |-> "number", nan |-> TRUE, num |-> 0, den |-> 1]

Undefined == [t |-> "undefined", nan |-> FALSE, num |-> 0, den |-> 1]

Add(a, b) ==
    IF a.nan \/ b.nan THEN NaN
    ELSE Rat(a.num * b.den + b.num * a.den, a.den * b.den)

Mul(a, b) ==
    IF a.nan \/ b.nan THEN NaN
    ELSE Rat(a.num * b.num, a.den * b.den)

Div(a, b) ==
    IF a.nan \/ b.nan \/ b.num = 0 THEN NaN
    ELSE IF b.num > 0 THEN Rat(a.num * b.den, a.den * b.num)
    ELSE Rat(-(a.num * b.den), -(a.den * b.num))

Less(a, b) == a.num * b.den < b.num * a.den

MathMin(a, b) ==
    IF a.nan \/ b.nan THEN NaN
    ELSE IF Less(b, a) THEN b ELSE a

\* Math.round: the nearest integer, halves towards +Infinity; NaN stays NaN.
MathRound(a) ==
    IF a.nan THEN NaN
    ELSE Num((2 * a.num + a.den) \div (2 * a.den))

\* ToBoolean of a number or undefined.
Truthy(v) == v.t = "number" /\ ~v.nan /\ v.num # 0

\* a || b
OrElse(a, b) == IF Truthy(a) THEN a ELSE b

IsInteger(v) == v.t = "number" /\ ~v.nan /\ v.den = 1

IsZero(v) == v.t = "number" /\ ~v.nan /\ v.num = 0

(***************************************************************************)
(* Text.  A text value is undefined, a raw string (the model's reply), or   *)
(* the sentence form generateAnalysis builds: "You match pct% ..." followed *)
(* by the exact-match and related-match sentences.                          *)
(***************************************************************************)
NoText == [kind |-> "undefined", raw |-> "", pct |-> Num(0), exact |-> <<>>, related |-> <<>>]

RawText(s) == [kind |-> "raw", raw |-> s, pct |-> Num(0), exact |-> <<>>, related |-> <<>>]

\* ToBoolean of a text value: undefined and "" are falsy.
TextTruthy(x) == x.kind = "local" \/ (x.kind = "raw" /\ x.raw # "")

\* a || b on text values
TextOrElse(a, b) == IF TextTruthy(a) THEN a ELSE b

(***************************************************************************)
(* The fixed tables.                                                        *)
(***************************************************************************)
SKILL_RELATIONSHIPS ==
    ("react" :> <<"javascript", "typescript", "frontend", "web development", "redux", "react-router", "nextjs">>) @@
    ("javascript" :> <<"typescript", "web development", "frontend", "nodejs", "es6", "webpack">>) @@
    ("python" :> <<"django", "flask", "backend", "data science", "machine learning", "pandas", "numpy">>) @@
    ("java" :> <<"spring", "backend", "enterprise", "hibernate", "maven", "junit">>) @@
    ("nodejs" :> <<"javascript", "backend", "express", "npm", "mongodb", "rest-api">>) @@
    ("typescript" :> <<"javascript", "angular", "react", "nodejs", "type-safety">>) @@
    ("aws" :> <<"cloud", "devops", "s3", "ec2", "lambda", "cloudformation">>) @@
    ("docker" :> <<"kubernetes", "devops", "containerization", "microservices">>) @@
    ("sql" :> <<"mysql", "postgresql", "database", "data modeling", "orm">>) @@
    ("machine learning" :> <<"python", "data science", "tensorflow", "pytorch", "scikit-learn">>) @@
    ("ui/ux" :> <<"figma", "design", "wireframing", "prototyping", "user research">>) @@
    ("agile" :> <<"scrum", "project management", "jira", "kanban">>) @@
    ("testing" :> <<"jest", "cypress", "selenium", "unit testing", "e2e testing">>)

SKILL_CATEGORIES ==
    ("frontend" :> <<"react", "vue", "angular", "javascript", "typescript", "html", "css", "sass", "webpack", "nextjs", "gatsby">>) @@
    ("backend" :> <<"nodejs", "python", "java", "php", "ruby", "golang", "express", "django", "spring", "graphql">>) @@
    ("database" :> <<"mysql", "postgresql", "mongodb", "redis", "elasticsearch", "dynamodb", "orm", "sql", "nosql">>) @@
    ("devops" :> <<"docker", "kubernetes", "aws", "azure", "gcp", "jenkins", "terraform", "ansible", "ci/cd">>) @@
    ("mobile" :> <<"react native", "flutter", "ios", "android", "swift", "kotlin">>) @@
    ("ai/ml" :> <<"machine learning", "deep learning", "python", "tensorflow", "pytorch", "nlp", "computer vision">>) @@
    ("design" :> <<"ui/ux", "figma", "adobe xd", "sketch", "user research", "wireframing">>) @@
    ("testing" :> <<"jest", "cypress", "selenium", "unit testing", "e2e testing", "test automation">>) @@
    ("project management" :> <<"agile", "scrum", "jira", "trello", "project planning", "team leadership">>) @@
    ("security" :> <<"cybersecurity", "oauth", "jwt", "encryption", "penetration testing", "security audit">>)

\* Object.entries(SKILL_CATEGORIES) enumerates the keys in insertion order.
CategoryEntries ==
    <<"frontend", "backend", "database", "devops", "mobile", "ai/ml", "design",
      "testing", "project management", "security">>

\* the members of the two tables as labels
RelationshipLabels == [k \in DOMAIN SKILL_RELATIONSHIPS |-> Literals(SKILL_RELATIONSHIPS[k])]

CategoryLabels == [k \in DOMAIN SKILL_CATEGORIES |-> Literals(SKILL_CATEGORIES[k])]

\* the lower-case keys every object literal inherits from Object.prototype:
\* table[key] is then a truthy value that is neither an array nor a number
InheritedKeys == {"constructor", "__proto__"}

Inherited(skill) == skill.word \in InheritedKeys /\ skill = Str(skill.word)

\* table[key] || [] for a key that is a skill label; the members as labels.
RelatedSkillsOf(skill) ==
    IF skill.word \in DOMAIN SKILL_RELATIONSHIPS /\ skill = Str(skill.word)
    THEN RelationshipLabels[skill.word]
    ELSE <<>>

CategorySkills(category) == CategoryLabels[category]

\* weights under which a related match is worth more than an exact one
weightsRelatedHeavy ==
    [exact |-> Num(1), related |-> Num(3), experience |-> Rat(3, 10),
     category |-> Rat(2, 5), projectRelevance |-> Rat(3, 5)]

weights ==
    [exact |-> Num(1), related |-> Rat(1, 2), experience |-> Rat(3, 10),
     category |-> Rat(2, 5), projectRelevance |-> Rat(3, 5)]

(***************************************************************************)
(* The private helpers of SkillMatcher.                                     *)
(***************************************************************************)
\* a related-match search that also accepts a user skill whose entry lists the project skill
findRelatedSkillMatchesSymmetric(userSkills, projectSkills) ==
    SelectSeq(projectSkills,
        LAMBDA projectSkill :
            /\ ~Includes(userSkills, projectSkill)
            /\ \E i \in 1..Len(userSkills) :
                   \/ Includes(RelatedSkillsOf(projectSkill), userSkills[i])
                   \/ Includes(RelatedSkillsOf(userSkills[i]), projectSkill))

\* a related-match search that does not skip the exact matches
findRelatedSkillMatchesNoSkip(userSkills, projectSkills) ==
    SelectSeq(projectSkills,
        LAMBDA projectSkill :
            \E i \in 1..Len(userSkills) :
                Includes(RelatedSkillsOf(projectSkill), userSkills[i]))

findRelatedSkillMatches(userSkills, projectSkills) ==
    SelectSeq(projectSkills,
        LAMBDA projectSkill :
            /\ ~Includes(userSkills, projectSkill)
            /\ \E i \in 1..Len(userSkills) :
                   Includes(RelatedSkillsOf(projectSkill), userSkills[i]))

\* relatedSkills.includes is not a function: the lookup of a project skill that
\* is not an exact match found an inherited member, and some() ran its callback
LookupRaises(userSkills, projectSkills) ==
    /\ userSkills # <<>>
    /\ \E i \in 1..Len(projectSkills) :
           /\ ~Includes(userSkills, projectSkills[i])
           /\ Inherited(projectSkills[i])

\* a category push that fires when either side has a skill in the category
CategoryPushEither(category, userSkills, projectSkills) ==
    LET skills == CategorySkills(category)
        projectSkillsInCategory == SelectSeq(projectSkills, LAMBDA skill : Includes(skills, skill))
        userSkillsInCategory == SelectSeq(userSkills, LAMBDA skill : Includes(skills, skill))
    IN  IF Len(projectSkillsInCategory) > 0 \/ Len(userSkillsInCategory) > 0
        THEN projectSkillsInCategory
        ELSE <<>>

\* the project skills pushed for one category
CategoryPush(category, userSkills, projectSkills) ==
    LET skills == CategorySkills(category)
        projectSkillsInCategory == SelectSeq(projectSkills, LAMBDA skill : Includes(skills, skill))
        userSkillsInCategory == SelectSeq(userSkills, LAMBDA skill : Includes(skills, skill))
    IN  IF Len(projectSkillsInCategory) > 0 /\ Len(userSkillsInCategory) > 0
        THEN projectSkillsInCategory
        ELSE <<>>

RECURSIVE CategoryLoop(_, _, _)
CategoryLoop(k, userSkills, projectSkills) ==
    IF k = 0 THEN <<>>
    ELSE CategoryLoop(k - 1, userSkills, projectSkills)
             \o CategoryPush(CategoryEntries[k], userSkills, projectSkills)

\* a category search that returns the pushed skills without deduplication
findCategoryMatchesNoDedup(userSkills, projectSkills) ==
    CategoryLoop(Len(CategoryEntries), userSkills, projectSkills)

findCategoryMatches(userSkills, projectSkills) ==
    Dedup(CategoryLoop(Len(CategoryEntries), userSkills, projectSkills))

generateAnalysis(exactMatches, relatedMatches, requiredSkills) ==
    LET matchPercentage ==
            MathRound(Mul(Div(Add(Num(Len(exactMatches)),
                                  Mul(Num(Len(relatedMatches)), Rat(1, 2))),
                              Num(Len(requiredSkills))),
                          Num(100)))
    IN  [kind |-> "local", raw |-> "", pct |-> matchPercentage,
         exact |-> exactMatches, related |-> relatedMatches]

\* the first category, in table order, that lists the skill ("" when none)
CategoryOf(skill) ==
    LET hits == {k \in 1..Len(CategoryEntries) :
                    Includes(CategorySkills(CategoryEntries[k]), skill)}
    IN  IF hits = {} THEN ""
        ELSE CategoryEntries[CHOOSE k \in hits : \A j \in hits : k <= j]

generateRecommendations(missingSkills) ==
    [i \in 1..Len(missingSkills) |->
        [learn |-> missingSkills[i], category |-> CategoryOf(missingSkills[i])]]

\* experience[skill] || 0; an inherited member turns the sum into a string,
\* which the division that follows makes NaN
ExperienceOf(experience, skill) ==
    IF skill.word \in DOMAIN experience /\ skill = Str(skill.word)
    THEN OrElse(Num(experience[skill.word]), Num(0))
    ELSE IF Inherited(skill) THEN NaN
    ELSE Num(0)

RECURSIVE TotalExperience(_, _)
TotalExperience(matchedSkills, experience) ==
    IF matchedSkills = <<>> THEN Num(0)
    ELSE Add(TotalExperience(SubSeq(matchedSkills, 1, Len(matchedSkills) - 1), experience),
             ExperienceOf(experience, matchedSkills[Len(matchedSkills)]))

calculateExperienceBonus(matchedSkills, experience) ==
    Mul(MathMin(Rat(3, 10),
                Div(TotalExperience(matchedSkills, experience),
                    Num(Len(matchedSkills) * 5))),
        weights.experience)

calculateProjectRelevance(matchedSkills, projectSkills) ==
    LET criticalSkills == Slice(projectSkills, 3)
        criticalMatches == SelectSeq(matchedSkills, LAMBDA skill : Includes(criticalSkills, skill))
    IN  Div(Num(Len(criticalMatches)), Num(Len(criticalSkills)))

(***************************************************************************)
(* calculateMatch, up to the await: the synchronous local computation.      *)
(***************************************************************************)
ExactMatches(normalizedUserSkills, normalizedProjectSkills) ==
    SelectSeq(normalizedProjectSkills, LAMBDA skill : Includes(normalizedUserSkills, skill))

\* (matches.length / normalizedProjectSkills.length) * weight
RatioScore(matches, normalizedProjectSkills, weight) ==
    Mul(Div(Num(Len(matches)), Num(Len(normalizedProjectSkills))), weight)

\* a base score that is rounded but not clamped
BaseScoreUnclamped(exactScore, relatedScore, categoryScore, experienceBonus, projectRelevanceScore) ==
    MathRound(Mul(Add(Add(Add(Add(exactScore, relatedScore), categoryScore),
                          experienceBonus),
                      Mul(projectRelevanceScore, weights.projectRelevance)),
                  Num(100)))

BaseScore(exactScore, relatedScore, categoryScore, experienceBonus, projectRelevanceScore) ==
    MathMin(Num(100),
            MathRound(Mul(Add(Add(Add(Add(exactScore, relatedScore), categoryScore),
                                  experienceBonus),
                              Mul(projectRelevanceScore, weights.projectRelevance)),
                          Num(100))))

LocalPart(uSkills, pSkills, uExperience) ==
    LET normalizedUserSkills == NormalizeAll(uSkills)
        normalizedProjectSkills == NormalizeAll(pSkills)
        exactMatches == ExactMatches(normalizedUserSkills, normalizedProjectSkills)
        relatedMatches == findRelatedSkillMatches(normalizedUserSkills, normalizedProjectSkills)
        categoryMatches == findCategoryMatches(normalizedUserSkills, normalizedProjectSkills)
        experienceBonus ==
            IF uExperience.given
            THEN calculateExperienceBonus(exactMatches, uExperience.levels)
            ELSE Num(0)
        projectRelevanceScore == calculateProjectRelevance(exactMatches, normalizedProjectSkills)
        exactScore == RatioScore(exactMatches, normalizedProjectSkills, weights.exact)
        relatedScore == RatioScore(relatedMatches, normalizedProjectSkills, weights.related)
        categoryScore == RatioScore(categoryMatches, normalizedProjectSkills, weights.category)
    IN  [normalizedUserSkills |-> normalizedUserSkills,
         normalizedProjectSkills |-> normalizedProjectSkills,
         exactMatches |-> exactMatches,
         relatedMatches |-> relatedMatches,
         categoryMatches |-> categoryMatches,
         experienceBonus |-> experienceBonus,
         projectRelevanceScore |-> projectRelevanceScore,
         exactScore |-> exactScore,
         relatedScore |-> relatedScore,
         categoryScore |-> categoryScore,
         baseScore |-> BaseScore(exactScore, relatedScore, categoryScore,
                                 experienceBonus, projectRelevanceScore)]

\* lines 89-92 raise before the await: the promise of calculateMatch is rejected
LocalRaises(uSkills, pSkills) == LookupRaises(NormalizeAll(uSkills), NormalizeAll(pSkills))

(***************************************************************************)
(* calculateMatch, after the await.                                         *)
(***************************************************************************)
\* a blend that defaults a missing external score to 0
FinalScoreZeroDefault(baseScore, aiScore) ==
    MathRound(Div(Add(baseScore, OrElse(aiScore, Num(0))), Num(2)))

\* Math.round((baseScore + (aiAnalysis.score || baseScore)) / 2)
FinalScore(baseScore, aiScore) ==
    MathRound(Div(Add(baseScore, OrElse(aiScore, baseScore)), Num(2)))

\* a missing-skill filter that forgets the related matches
MissingSkillsExactOnly(normalizedProjectSkills, exactMatches, relatedMatches) ==
    SelectSeq(normalizedProjectSkills, LAMBDA skill : ~Includes(exactMatches, skill))

MissingSkills(normalizedProjectSkills, exactMatches, relatedMatches) ==
    SelectSeq(normalizedProjectSkills,
        LAMBDA skill : ~Includes(exactMatches, skill) /\ ~Includes(relatedMatches, skill))

\* a matched-skill list that forgets the related matches
MatchedSkillsExactOnly(exactMatches, relatedMatches) == Dedup(exactMatches)

MatchedSkills(exactMatches, relatedMatches) == Dedup(exactMatches \o relatedMatches)

\* a catch block that substitutes a fixed neutral score
FallbackNeutral(l) ==
    [shape |-> "object",
     score |-> Num(50),
     analysis |-> generateAnalysis(l.exactMatches, l.relatedMatches, l.normalizedProjectSkills)]

\* the catch block: the locally synthesized analysis
Fallback(l) ==
    [shape |-> "object",
     score |-> l.baseScore,
     analysis |-> generateAnalysis(l.exactMatches, l.relatedMatches, l.normalizedProjectSkills)]

\* reading .score of null raises a TypeError; of a number it is undefined
Raises(ai) == ai.shape = "null"

\* a result that leaves the recommendations to the external analysis when there is one
MatchResultAiRecommends(l, ai) ==
    LET missingSkills == MissingSkills(l.normalizedProjectSkills, l.exactMatches, l.relatedMatches)
    IN  [score |-> FinalScore(l.baseScore, ai.score),
         analysis |-> TextOrElse(ai.analysis,
                          generateAnalysis(l.exactMatches, l.relatedMatches,
                                           l.normalizedProjectSkills)),
         matchedSkills |-> MatchedSkills(l.exactMatches, l.relatedMatches),
         missingSkills |-> missingSkills,
         recommendations |-> IF TextTruthy(ai.analysis) /\ ai.analysis.kind = "raw"
                             THEN <<>>
                             ELSE generateRecommendations(missingSkills),
         skillBreakdown |->
             [exactMatches |-> l.exactMatches,
              relatedMatches |-> l.relatedMatches,
              categoryMatches |-> l.categoryMatches],
         matchDetails |->
             [exactScore |-> MathRound(Mul(l.exactScore, Num(100))),
              relatedScore |-> MathRound(Mul(l.relatedScore, Num(100))),
              categoryScore |-> MathRound(Mul(l.categoryScore, Num(100))),
              projectRelevanceScore |-> MathRound(Mul(l.projectRelevanceScore, Num(100)))]]

MatchResult(l, ai) ==
    LET missingSkills == MissingSkills(l.normalizedProjectSkills, l.exactMatches, l.relatedMatches)
    IN  [score |-> FinalScore(l.baseScore, ai.score),
         analysis |-> TextOrElse(ai.analysis,
                          generateAnalysis(l.exactMatches, l.relatedMatches,
                                           l.normalizedProjectSkills)),
         matchedSkills |-> MatchedSkills(l.exactMatches, l.relatedMatches),
         missingSkills |-> missingSkills,
         recommendations |-> generateRecommendations(missingSkills),
         skillBreakdown |->
             [exactMatches |-> l.exactMatches,
              relatedMatches |-> l.relatedMatches,
              categoryMatches |-> l.categoryMatches],
         matchDetails |->
             [exactScore |-> MathRound(Mul(l.exactScore, Num(100))),
              relatedScore |-> MathRound(Mul(l.relatedScore, Num(100))),
              categoryScore |-> MathRound(Mul(l.categoryScore, Num(100))),
              projectRelevanceScore |-> MathRound(Mul(l.projectRelevanceScore, Num(100)))]]

(***************************************************************************)
(* analyzeSkillMatch: the reply of the model and what JSON.parse makes of   *)
(* it.  A reply is text that is not JSON (form "text"), or                  *)
(* the JSON text of null, of a bare number, or of an object whose score and *)
(* analysis members may be missing.                                         *)
(***************************************************************************)
ParseFails(reply) == reply.form = "text"

\* lines 44-52: JSON.parse(text), or {score: 0, analysis: text}
Parsed(reply) ==
    IF ParseFails(reply)
    THEN [shape |-> "object", score |-> Num(0), analysis |-> RawText(reply.raw)]
    ELSE IF reply.form = "object"
    THEN [shape |-> "object", score |-> reply.score, analysis |-> reply.analysis]
    ELSE [shape |-> reply.form, score |-> Undefined, analysis |-> NoText]

(***************************************************************************)
(* The inputs the model draws from.                                         *)
(***************************************************************************)
UserLabels ==
    {[word |-> "react", caps |-> TRUE, pad |-> TRUE],
     Str("typescript"), Str("cloud")}

ProjectLabels ==
    {[word |-> "react", caps |-> TRUE, pad |-> FALSE],
     [word |-> "node.js", caps |-> TRUE, pad |-> FALSE],
     [word |-> "aws", caps |-> TRUE, pad |-> FALSE]}

ArraysUpTo(S, n) == UNION {[1..k -> S] : k \in 0..n}

UserInputs == ArraysUpTo(UserLabels, MaxUserLen) \cup {<<Str("constructor")>>}

ProjectInputs == ArraysUpTo(ProjectLabels, MaxProjLen) \cup {<<Str("constructor")>>}

ExperienceLevels == {-10, 7}

NoExperience == [given |-> FALSE, levels |-> ("react" :> 0)]

ExperienceInputs ==
    {NoExperience} \cup {[given |-> TRUE, levels |-> ("react" :> v)] : v \in ExperienceLevels}

AiScores == {Num(0), Num(37), Num(150)}

Replies ==
    {[form |-> "text", raw |-> "I cannot answer that", score |-> Undefined, analysis |-> NoText]}
    \cup {[form |-> f, raw |-> "", score |-> Undefined, analysis |-> NoText] :
        f \in {"null", "number"}}
    \cup {[form |-> "object", raw |-> "", score |-> Undefined, analysis |-> NoText]}
    \cup {[form |-> "object", raw |-> "", score |-> sc, analysis |-> RawText("Good fit")] :
        sc \in AiScores}

(***************************************************************************)
(* State: one calculateMatch invocation at a time (pc .. result), and, for  *)
(* the concurrent specification, the invocations in flight on one matcher   *)
(* (calls).                                                                 *)
(***************************************************************************)
VARIABLES
    pc,              \* "idle" | "awaiting" | "returned" | "threw" | "stalled"
    userSkills,      \* the caller's arguments
    projectSkills,
    userExperience,
    locals,          \* the local constants computed before the await
    outcome,         \* "none" | "rejected" | "unparseable" | "parsed"
    aiAnalysis,      \* the value of aiAnalysis after the try/catch
    result,          \* the SkillMatchResult the promise resolved with
    attempts,        \* the analyzeSkillMatch calls this invocation has made
    calls,           \* per concurrent invocation: its parameters, locals, reply, result
    list             \* the state of the ProjectList component and its handlers in flight

vars == <<pc, userSkills, projectSkills, userExperience, locals, outcome, aiAnalysis, result,
          attempts, calls, list>>

NoLocals == LocalPart(<<>>, <<>>, NoExperience)

NoAnalysis == [shape |-> "object", score |-> Undefined, analysis |-> NoText]

NoResult == MatchResult(NoLocals, NoAnalysis)

Calls == 1..NumCalls

NoReply == [form |-> "none", raw |-> "", score |-> Undefined, analysis |-> NoText]

\* the rejection of generateContent, in place of a reply
Rejection == [form |-> "rejected", raw |-> "", score |-> Undefined, analysis |-> NoText]

\* an invocation that has not been made
IdleFrame ==
    [pc |-> "idle", userSkills |-> <<>>, projectSkills |-> <<>>,
     userExperience |-> NoExperience, locals |-> NoLocals,
     reply |-> NoReply, result |-> NoResult]

\* the handleRequestToJoin invocations that can be in flight together
Joins == 1..MaxJoins

\* the projects on the page: ids, and the extractedSkills of each
Projects == {1, 2}

extractedSkills(project) ==
    IF project = 1 THEN <<[word |-> "aws", caps |-> TRUE, pad |-> FALSE]>> ELSE <<>>

\* userProfile.skills of the signed-in user; the profile has no skillExperience
ProfileSkills == <<[word |-> "react", caps |-> TRUE, pad |-> TRUE]>>

\* useState<MatchAnalysis | null>(null)
NoMatchAnalysis == [set |-> FALSE, score |-> Undefined, analysis |-> NoText]

IdleJoin == [pc |-> "idle", project |-> 0]

IdleSubmit ==
    [pc |-> "idle", projectId |-> 0, matchScore |-> Undefined, matchAnalysis |-> NoText]

\* the component after its first render and loadProjects
ListInit ==
    [selectedProject |-> 0,
     requestDialogOpen |-> FALSE,
     analyzing |-> FALSE,
     error |-> "null",
     matchAnalysis |-> NoMatchAnalysis,
     requested |-> {},
     joins |-> [j \in Joins |-> IdleJoin],
     submit |-> IdleSubmit,
     project_requests |-> {}]

Init ==
    /\ pc = "idle"
    /\ userSkills = <<>>
    /\ projectSkills = <<>>
    /\ userExperience = NoExperience
    /\ locals = NoLocals
    /\ outcome = "none"
    /\ aiAnalysis = NoAnalysis
    /\ result = NoResult
    /\ attempts = 0
    /\ calls = [c \in Calls |-> IdleFrame]
    /\ list = ListInit

\* lines 73-129: the arguments are bound, the local part runs, the call is issued
Call ==
    /\ pc = "idle"
    /\ \E u \in UserInputs, p \in ProjectInputs, e \in ExperienceInputs :
           /\ userSkills' = u
           /\ projectSkills' = p
           /\ userExperience' = e
           /\ IF LocalRaises(u, p)
              THEN pc' = "threw" /\ UNCHANGED <<locals, attempts>>
              ELSE /\ pc' = "awaiting"
                   /\ locals' = LocalPart(u, p, e)
                   /\ attempts' = attempts + 1
    /\ UNCHANGED <<outcome, aiAnalysis, result, calls, list>>

\* generateContent rejects; analyzeSkillMatch rethrows; the catch block runs
GenerateContentRejects ==
    /\ pc = "awaiting"
    /\ outcome' = "rejected"
    /\ aiAnalysis' = Fallback(locals)
    /\ result' = MatchResult(locals, Fallback(locals))
    /\ pc' = "returned"
    /\ UNCHANGED <<userSkills, projectSkills, userExperience, locals, attempts, calls, list>>

\* generateContent resolves with a reply; lines 138-166 run on what was parsed
GenerateContentResolves ==
    /\ pc = "awaiting"
    /\ \E reply \in Replies :
           /\ outcome' = IF ParseFails(reply) THEN "unparseable" ELSE "parsed"
           /\ aiAnalysis' = Parsed(reply)
           /\ IF Raises(Parsed(reply))
              THEN pc' = "threw" /\ UNCHANGED result
              ELSE pc' = "returned" /\ result' = MatchResult(locals, Parsed(reply))
    /\ UNCHANGED <<userSkills, projectSkills, userExperience, locals, attempts, calls, list>>

\* the caller has consumed the settled promise; the matcher is called again
Settle ==
    /\ pc \in {"returned", "threw"}
    /\ pc' = "idle"
    /\ userSkills' = <<>>
    /\ projectSkills' = <<>>
    /\ userExperience' = NoExperience
    /\ locals' = NoLocals
    /\ outcome' = "none"
    /\ aiAnalysis' = NoAnalysis
    /\ result' = NoResult
    /\ attempts' = 0
    /\ UNCHANGED <<calls, list>>

Next ==
    \/ Call
    \/ GenerateContentRejects
    \/ GenerateContentResolves
    \/ Settle

Spec == Init /\ [][Next]_vars

(***************************************************************************)
(* The same invocations with an external call that may never settle, and    *)
(* the scheduling of the event loop: a promise that is settled has its      *)
(* continuation run.  The code sets no timer on the call, so no step leaves *)
(* an invocation whose call never settles.                                  *)
(***************************************************************************)
\* model.generateContent neither resolves nor rejects
GenerateContentNeverSettles ==
    /\ pc = "awaiting"
    /\ pc' = "stalled"
    /\ UNCHANGED <<userSkills, projectSkills, userExperience, locals, outcome, aiAnalysis,
                   result, attempts, calls, list>>

NextLive ==
    \/ Next
    \/ GenerateContentNeverSettles

Fairness ==
    WF_vars(GenerateContentRejects \/ GenerateContentResolves \/ GenerateContentNeverSettles)

SpecLive == Init /\ [][NextLive]_vars /\ Fairness

(***************************************************************************)
(* Concurrent invocations on one SkillMatcher.  Each invocation has its own *)
(* activation record (parameters and const locals); the invocations         *)
(* interleave at the await of analyzeSkillMatch.  The arguments are drawn   *)
(* from a fixed set of scenarios.                                           *)
(***************************************************************************)
Cap(w) == [word |-> w, caps |-> TRUE, pad |-> FALSE]

Scenarios ==
    {[u |-> <<Cap("react"), Cap("typescript")>>,
      p |-> <<Cap("react"), Cap("node.js"), Cap("aws")>>, e |-> NoExperience],
     [u |-> <<Str("typescript")>>, p |-> <<Str("nodejs")>>, e |-> NoExperience],
     [u |-> <<Str("cloud")>>, p |-> <<Cap("aws"), Cap("aws")>>, e |-> NoExperience],
     [u |-> <<[word |-> "react", caps |-> TRUE, pad |-> TRUE]>>,
      p |-> <<Str("javascript"), Cap("react")>>,
      e |-> [given |-> TRUE, levels |-> ("react" :> 3)]],
     [u |-> <<>>, p |-> <<>>, e |-> NoExperience],
     [u |-> <<Str("docker"), Str("python")>>,
      p |-> <<Cap("aws"), Str("machine learning"), Str("django")>>, e |-> NoExperience],
     [u |-> <<Str("react")>>, p |-> <<Str("constructor")>>, e |-> NoExperience]}

\* an invocation drawing on the activation record of the oldest one in flight
FrameOfShared(cs, c) ==
    LET busy == {d \in Calls : cs[d].pc = "awaiting"}
    IN  cs[CHOOSE d \in busy : \A other \in busy : d <= other]

\* the activation record of invocation c: its parameters and const locals
FrameOf(cs, c) == cs[c]

StartCall ==
    \E c \in Calls :
        /\ calls[c].pc = "idle"
        /\ \E sc \in Scenarios :
               calls' = [calls EXCEPT ![c] =
                            [pc |-> IF LocalRaises(sc.u, sc.p) THEN "threw" ELSE "awaiting",
                             userSkills |-> sc.u, projectSkills |-> sc.p,
                             userExperience |-> sc.e,
                             locals |-> IF LocalRaises(sc.u, sc.p) THEN NoLocals
                                        ELSE LocalPart(sc.u, sc.p, sc.e),
                             reply |-> NoReply, result |-> NoResult]]
        /\ UNCHANGED <<pc, userSkills, projectSkills, userExperience, locals, outcome,
                       aiAnalysis, result, attempts, list>>

CallRejects ==
    \E c \in Calls :
        /\ calls[c].pc = "awaiting"
        /\ LET l == FrameOf(calls, c).locals
           IN  calls' = [calls EXCEPT ![c].pc = "returned",
                                      ![c].reply = Rejection,
                                      ![c].result = MatchResult(l, Fallback(l))]
        /\ UNCHANGED <<pc, userSkills, projectSkills, userExperience, locals, outcome,
                       aiAnalysis, result, attempts, list>>

CallResolves ==
    \E c \in Calls :
        /\ calls[c].pc = "awaiting"
        /\ \E reply \in Replies :
               LET l == FrameOf(calls, c).locals
               IN  IF Raises(Parsed(reply))
                   THEN calls' = [calls EXCEPT ![c].pc = "threw", ![c].reply = reply]
                   ELSE calls' = [calls EXCEPT ![c].pc = "returned",
                                               ![c].reply = reply,
                                               ![c].result = MatchResult(l, Parsed(reply))]
        /\ UNCHANGED <<pc, userSkills, projectSkills, userExperience, locals, outcome,
                       aiAnalysis, result, attempts, list>>

CallSettles ==
    \E c \in Calls :
        /\ calls[c].pc \in {"returned", "threw"}
        /\ calls' = [calls EXCEPT ![c] = IdleFrame]
        /\ UNCHANGED <<pc, userSkills, projectSkills, userExperience, locals, outcome,
                       aiAnalysis, result, attempts, list>>

NextConc ==
    \/ StartCall
    \/ CallRejects
    \/ CallResolves
    \/ CallSettles

SpecConc == Init /\ [][NextConc]_vars

(***************************************************************************)
(* Vocabulary of the properties.                                            *)
(***************************************************************************)
\* the canonical form of a label, written out from its text
Canon(s) == [word |-> s.word, caps |-> FALSE, pad |-> FALSE]

CanonAll(arr) == [i \in 1..Len(arr) |-> Canon(arr[i])]

CanonUser == {Canon(userSkills[i]) : i \in 1..Len(userSkills)}

CanonProject == {Canon(projectSkills[i]) : i \in 1..Len(projectSkills)}

HalfSum(a, b) == MathRound(Div(Add(a, b), Num(2)))

LocalSentence ==
    generateAnalysis(result.skillBreakdown.exactMatches,
                     result.skillBreakdown.relatedMatches,
                     CanonAll(projectSkills))

CategoryMembers == [c \in DOMAIN SKILL_CATEGORIES |-> {Str(SKILL_CATEGORIES[c][i]) : i \in 1..Len(SKILL_CATEGORIES[c])}]

InCategory(c, skill) == skill \in CategoryMembers[c]

NoCommonSkill == CanonUser \cap CanonProject = {}

NoSharedCategory ==
    \A c \in DOMAIN SKILL_CATEGORIES :
        ~((\E u \in CanonUser : InCategory(c, u)) /\ (\E q \in CanonProject : InCategory(c, q)))

\* no project skill whose own relationship entry lists a user skill
NoRelationLink ==
    \A q \in CanonProject : \A u \in CanonUser :
        q.word \in DOMAIN SKILL_RELATIONSHIPS =>
            \A i \in 1..Len(SKILL_RELATIONSHIPS[q.word]) : Str(SKILL_RELATIONSHIPS[q.word][i]) # u

ScoredReply ==
    /\ outcome = "parsed"
    /\ aiAnalysis.shape = "object"
    /\ IsInteger(aiAnalysis.score)
    /\ aiAnalysis.score.num \in 0..100

(***************************************************************************)
(* C1: the score of every returned MatchResult is an integer in [0, 100],   *)
(* whatever the inputs and the outcome of the external call.                *)
(***************************************************************************)
C1_ScoreIsIntegerInRange ==
    pc = "returned" =>
        /\ IsInteger(result.score)
        /\ result.score.num >= 0
        /\ result.score.num <= 100

(***************************************************************************)
(* C2: calculateMatch never raises to its caller, whatever the external     *)
(* call answers.                                                            *)
(***************************************************************************)
C2_NeverRaises == pc # "threw"

(***************************************************************************)
(* C3: when the external call rejects, the result carries the locally       *)
(* generated sentence as analysis and baseScore as score.                   *)
(***************************************************************************)
C3_RejectionFallsBackToLocal ==
    (pc = "returned" /\ outcome = "rejected") =>
        /\ result.analysis = LocalSentence
        /\ result.score = locals.baseScore

C3_Witness ==
    /\ pc = "returned"
    /\ outcome = "rejected"
    /\ IsInteger(result.score)
    /\ result.score.num > 50
    /\ result.analysis.kind = "local"
    /\ result.analysis.related # <<>>

(***************************************************************************)
(* C4: when the reply cannot be parsed, the result's analysis is the raw    *)
(* reply text and its score is round((baseScore + 0) / 2).                  *)
(***************************************************************************)
C4_ParseFailureBlendsWithZero ==
    (pc = "returned" /\ outcome = "unparseable") =>
        /\ aiAnalysis.score = Num(0)
        /\ result.analysis = aiAnalysis.analysis
        /\ result.score = HalfSum(locals.baseScore, Num(0))

(***************************************************************************)
(* C5: for every external score s in 0..100 of a successful call, the       *)
(* returned score is round((baseScore + s) / 2).                            *)
(***************************************************************************)
C5_ScoreIsRoundedMean ==
    (pc = "returned" /\ ScoredReply) =>
        result.score = HalfSum(locals.baseScore, aiAnalysis.score)

(***************************************************************************)
(* C6: missingSkills and matchedSkills partition the canonical project      *)
(* skills: disjoint, and their union is the set of canonical project skills.*)
(***************************************************************************)
C6_MissingAndMatchedPartition ==
    pc = "returned" =>
        /\ Elems(result.missingSkills) \cap Elems(result.matchedSkills) = {}
        /\ Elems(result.missingSkills) \cup Elems(result.matchedSkills) = CanonProject

C6_Witness ==
    /\ pc = "returned"
    /\ result.missingSkills # <<>>
    /\ result.skillBreakdown.exactMatches # <<>>
    /\ result.skillBreakdown.relatedMatches # <<>>

(***************************************************************************)
(* C7: matchedSkills is, as a set, the union of exactMatches and            *)
(* relatedMatches of the skill breakdown.                                   *)
(***************************************************************************)
C7_MatchedIsExactUnionRelated ==
    pc = "returned" =>
        Elems(result.matchedSkills) =
            Elems(result.skillBreakdown.exactMatches)
                \cup Elems(result.skillBreakdown.relatedMatches)

C7_Witness ==
    /\ pc = "returned"
    /\ Len(result.skillBreakdown.exactMatches) > 1
    /\ result.skillBreakdown.relatedMatches # <<>>
    /\ Len(result.matchedSkills) = 2

(***************************************************************************)
(* C8: with an empty projectSkills every ratio sub-score of the result is   *)
(* the number 0 and missingSkills is empty.                                 *)
(***************************************************************************)
C8_EmptyProjectScoresZero ==
    (pc = "returned" /\ projectSkills = <<>>) =>
        /\ IsZero(result.matchDetails.exactScore)
        /\ IsZero(result.matchDetails.relatedScore)
        /\ IsZero(result.matchDetails.categoryScore)
        /\ IsZero(result.matchDetails.projectRelevanceScore)
        /\ result.missingSkills = <<>>

C10_SubsetIsAllExact ==
    (pc = "returned" /\ CanonProject \subseteq CanonUser) =>
        /\ result.skillBreakdown.exactMatches = CanonAll(projectSkills)
        /\ result.skillBreakdown.relatedMatches = <<>>
        /\ result.missingSkills = <<>>

C10_Witness ==
    /\ pc = "returned"
    /\ CanonProject \subseteq CanonUser
    /\ Len(projectSkills) > 1
    /\ Len(userSkills) > 1

(***************************************************************************)
(* C12: changing the letter case or the surrounding whitespace of any label *)
(* leaves the match lists, missingSkills and every sub-score unchanged.     *)
(* These fields are fixed by the local part, so they are compared once it   *)
(* has run: they agree with those for the labels written in canonical form, *)
(* and so with those for any other way of writing the same labels.          *)
(***************************************************************************)
C12_CaseAndPaddingIrrelevant ==
    pc = "awaiting" =>
        LET asWritten == MatchResult(locals, NoAnalysis)
            canonical ==
                MatchResult(LocalPart(CanonAll(userSkills), CanonAll(projectSkills),
                                      userExperience),
                            NoAnalysis)
        IN  /\ asWritten.skillBreakdown = canonical.skillBreakdown
            /\ asWritten.missingSkills = canonical.missingSkills
            /\ asWritten.matchDetails = canonical.matchDetails

C12_Witness ==
    /\ pc = "awaiting"
    /\ \E i \in 1..Len(userSkills) : userSkills[i].caps /\ userSkills[i].pad
    /\ \E i \in 1..Len(projectSkills) : projectSkills[i].caps
    /\ locals.exactMatches # <<>>
    /\ locals.relatedMatches # <<>>
    /\ locals.categoryMatches # <<>>
    /\ Len(locals.exactMatches) + Len(locals.relatedMatches) < Len(projectSkills)

(***************************************************************************)
(* C14: each of the four matchDetails sub-scores is an integer between 0    *)
(* and 100, also for repeated project labels and more than three of them.   *)
(***************************************************************************)
C14_SubScoresAreInRange ==
    pc = "returned" =>
        \A v \in {result.matchDetails.exactScore, result.matchDetails.relatedScore,
                  result.matchDetails.categoryScore,
                  result.matchDetails.projectRelevanceScore} :
            IsInteger(v) /\ v.num >= 0 /\ v.num <= 100

(***************************************************************************)
(* C15: matchedSkills and missingSkills list no label more than once.       *)
(***************************************************************************)
C15_NoRepeatedEntries ==
    pc = "returned" =>
        /\ Cardinality(Elems(result.matchedSkills)) = Len(result.matchedSkills)
        /\ Cardinality(Elems(result.missingSkills)) = Len(result.missingSkills)

(***************************************************************************)
(* C16 as stated: for a reply that is valid JSON without the score and      *)
(* analysis members, the external score used is 0 and the returned analysis *)
(* is the raw reply text.                                                   *)
(***************************************************************************)
WrongShapeReply ==
    /\ outcome = "parsed"
    /\ aiAnalysis.shape \in {"object", "number"}
    /\ aiAnalysis.score = Undefined
    /\ aiAnalysis.analysis = NoText

C16_WrongShapeScoresZero ==
    (pc = "returned" /\ WrongShapeReply) =>
        /\ result.score = HalfSum(locals.baseScore, Num(0))
        /\ result.analysis.kind = "raw"

(***************************************************************************)
(* C16 amended: for a reply that is a JSON object or number without the     *)
(* score and analysis members, the external score falls back to baseScore,  *)
(* so the returned score is baseScore, and the returned analysis is the     *)
(* locally generated sentence.                                              *)
(***************************************************************************)
C16_WrongShapeFallsBackToLocal ==
    (pc = "returned" /\ WrongShapeReply) =>
        /\ result.score = locals.baseScore
        /\ result.analysis = LocalSentence

C16_Witness ==
    /\ pc = "returned"
    /\ WrongShapeReply
    /\ aiAnalysis.shape = "object"
    /\ IsInteger(result.score)
    /\ result.score.num > 1

(***************************************************************************)
(* C18: exactMatches and relatedMatches are disjoint, and a skill the user  *)
(* holds verbatim is never a related match.                                 *)
(***************************************************************************)
C18_ExactAndRelatedDisjoint ==
    pc = "returned" =>
        /\ Elems(result.skillBreakdown.exactMatches)
               \cap Elems(result.skillBreakdown.relatedMatches) = {}
        /\ \A q \in CanonProject \cap CanonUser :
               q \notin Elems(result.skillBreakdown.relatedMatches)

\* the user holds react and typescript: react's own entry lists typescript
C18_Witness ==
    /\ pc = "returned"
    /\ Str("react") \in CanonProject \cap CanonUser
    /\ Str("typescript") \in CanonUser
    /\ result.skillBreakdown.relatedMatches = <<>>

(***************************************************************************)
(* C20: categoryMatches is exactly the duplicate-free set of the canonical  *)
(* project skills that belong to a category which also holds a canonical    *)
(* user skill, whether or not the user holds that project skill.            *)
(***************************************************************************)
C20_CategoryMatchesAreSharedCategorySkills ==
    pc = "returned" =>
        /\ Elems(result.skillBreakdown.categoryMatches) =
               {q \in CanonProject :
                   \E c \in DOMAIN SKILL_CATEGORIES :
                       InCategory(c, q) /\ \E u \in CanonUser : InCategory(c, u)}
        /\ Cardinality(Elems(result.skillBreakdown.categoryMatches))
               = Len(result.skillBreakdown.categoryMatches)

\* react repeated in the project, matched through typescript, which the user holds
C20_Witness ==
    /\ pc = "returned"
    /\ Str("typescript") \in CanonUser
    /\ Str("react") \notin CanonUser
    /\ \E i, j \in 1..Len(projectSkills) : i # j /\ projectSkills[i] = projectSkills[j]
                                           /\ projectSkills[i].word = "react"
    /\ result.skillBreakdown.categoryMatches = <<Str("react")>>

(***************************************************************************)
(* Vocabulary of the properties of concurrent invocations.                  *)
(***************************************************************************)
\* what a single invocation, run alone, returns for these arguments and reply
RunAlone(u, p, e, reply) ==
    LET l == LocalPart(u, p, e)
    IN  IF reply = Rejection THEN MatchResult(l, Fallback(l))
        ELSE MatchResult(l, Parsed(reply))

\* whether a single invocation, run alone, raises for these arguments and reply
RaisesAlone(u, p, reply) ==
    \/ LocalRaises(u, p)
    \/ reply # NoReply /\ reply # Rejection /\ Raises(Parsed(reply))

SameCall(f, g) ==
    /\ f.userSkills = g.userSkills
    /\ f.projectSkills = g.projectSkills
    /\ f.userExperience = g.userExperience
    /\ f.reply = g.reply

CanonSet(arr) == {Canon(arr[i]) : i \in 1..Len(arr)}

\* the relationship entry of a canonical skill, empty when it has none
Entry(skill) ==
    IF skill.word \in DOMAIN SKILL_RELATIONSHIPS
    THEN {Str(SKILL_RELATIONSHIPS[skill.word][i]) :
             i \in 1..Len(SKILL_RELATIONSHIPS[skill.word])}
    ELSE {}

ReactTypeScriptScenario(f) ==
    /\ f.userSkills = <<Cap("react"), Cap("typescript")>>
    /\ f.projectSkills = <<Cap("react"), Cap("node.js"), Cap("aws")>>

(***************************************************************************)
(* C11: two invocations with identical arguments whose external call ends   *)
(* the same way return identical results, whatever ran before or between.   *)
(***************************************************************************)
C11_SameCallSameResult ==
    \A c, d \in Calls :
        (calls[c].pc = "returned" /\ calls[d].pc = "returned"
            /\ SameCall(calls[c], calls[d]))
        => calls[c].result = calls[d].result

C11_Witness ==
    \E c, d \in Calls :
        /\ c # d
        /\ calls[c].pc = "returned" /\ calls[d].pc = "returned"
        /\ SameCall(calls[c], calls[d])
        /\ calls[c].projectSkills # <<>>
        /\ calls[c].reply.form = "object"

(***************************************************************************)
(* C13 as stated: for userSkills ["React","TypeScript"] and projectSkills   *)
(* ["React","Node.js","AWS"], relatedMatches includes "node.js".            *)
(***************************************************************************)
C13_NodeJsIsRelated ==
    \A c \in Calls :
        (calls[c].pc = "returned" /\ ReactTypeScriptScenario(calls[c]))
        => Includes(calls[c].result.skillBreakdown.relatedMatches, Str("node.js"))

(***************************************************************************)
(* C13 amended: for these arguments relatedMatches is empty, exactMatches   *)
(* is ["react"], and "node.js" and "aws" are the missing skills.            *)
(***************************************************************************)
C13_NodeJsIsMissing ==
    \A c \in Calls :
        (calls[c].pc = "returned" /\ ReactTypeScriptScenario(calls[c]))
        => /\ calls[c].result.skillBreakdown.relatedMatches = <<>>
           /\ calls[c].result.skillBreakdown.exactMatches = <<Str("react")>>
           /\ calls[c].result.missingSkills = <<Str("node.js"), Str("aws")>>

C13_Witness ==
    \E c \in Calls :
        /\ calls[c].pc = "returned"
        /\ ReactTypeScriptScenario(calls[c])
        /\ calls[c].reply.form = "object"
        /\ calls[c].reply.score = Num(37)

(***************************************************************************)
(* C17: invocations interleaved at their await each end as they would if    *)
(* run alone, with the result a single invocation returns for their own     *)
(* arguments and reply, and the caller's arrays are the same from the call  *)
(* to its end.                                                              *)
(***************************************************************************)
EachEndsAsIfAlone ==
    \A c \in Calls :
        /\ calls[c].pc = "returned" =>
               /\ ~RaisesAlone(calls[c].userSkills, calls[c].projectSkills, calls[c].reply)
               /\ calls[c].result =
                      RunAlone(calls[c].userSkills, calls[c].projectSkills,
                               calls[c].userExperience, calls[c].reply)
        /\ calls[c].pc = "threw" =>
               RaisesAlone(calls[c].userSkills, calls[c].projectSkills, calls[c].reply)

ArgumentsKept ==
    \A c \in Calls :
        (calls[c].pc = "awaiting") =>
            /\ calls'[c].userSkills = calls[c].userSkills
            /\ calls'[c].projectSkills = calls[c].projectSkills
            /\ calls'[c].userExperience = calls[c].userExperience

C17_ConcurrentCallsAreIndependent == []EachEndsAsIfAlone /\ [][ArgumentsKept]_vars

C17_Witness ==
    /\ \A c \in Calls : calls[c].pc = "returned"
    /\ \E c, d \in Calls : calls[c].projectSkills # calls[d].projectSkills
    /\ \E c, d \in Calls : calls[c].result.score # calls[d].result.score

(***************************************************************************)
(* C19: a project skill the user does not hold is a related match exactly   *)
(* when its own relationship entry lists a canonical user skill; a user     *)
(* skill whose entry lists the project skill does not make it related.      *)
(***************************************************************************)
C19_RelatedIffOwnEntryListsUserSkill ==
    \A c \in Calls :
        calls[c].pc = "returned" =>
            \A q \in CanonSet(calls[c].projectSkills) \ CanonSet(calls[c].userSkills) :
                Includes(calls[c].result.skillBreakdown.relatedMatches, q)
                    <=> (Entry(q) \cap CanonSet(calls[c].userSkills) # {})

\* typescript's entry lists nodejs, the entry of nodejs does not list typescript
C19_Witness ==
    \E c \in Calls :
        /\ calls[c].pc = "returned"
        /\ \E q \in CanonSet(calls[c].projectSkills), u \in CanonSet(calls[c].userSkills) :
               /\ q \in Entry(u)
               /\ u \notin Entry(q)
               /\ q \notin CanonSet(calls[c].userSkills)
               /\ ~Includes(calls[c].result.skillBreakdown.relatedMatches, q)
        /\ \E d \in Calls : calls[d].pc = "returned"
                            /\ calls[d].result.skillBreakdown.relatedMatches # <<>>

(***************************************************************************)
(* Vocabulary of the properties of the sub-scores.                          *)
(***************************************************************************)
LessEq(a, b) == ~a.nan /\ ~b.nan /\ ~Less(b, a)

WithExperience == pc = "awaiting" /\ userExperience.given

WithoutExperience == LocalPart(userSkills, projectSkills, NoExperience)

\* the first three canonical project skills, in the caller's order
CriticalSkills == Slice(locals.normalizedProjectSkills, 3)

\* the fraction of the critical skills found in a set of skills, 0 of none
FractionOfCritical(found) ==
    IF CriticalSkills = <<>> THEN Num(0)
    ELSE Rat(Cardinality({i \in 1..Len(CriticalSkills) : CriticalSkills[i] \in found}),
             Len(CriticalSkills))

SameNumber(a, b) == ~a.nan /\ ~b.nan /\ a.num * b.den = b.num * a.den

WeightedSum ==
    Add(Add(Add(Add(locals.exactScore, locals.relatedScore), locals.categoryScore),
            locals.experienceBonus),
        Mul(locals.projectRelevanceScore, Rat(3, 5)))

(***************************************************************************)
(* C21: with an experience map and no exact match the experience bonus is   *)
(* 0, and the base score is the integer computed without the map.           *)
(***************************************************************************)
C21_NoExactMatchNoBonus ==
    (WithExperience /\ locals.exactMatches = <<>>) =>
        /\ IsZero(locals.experienceBonus)
        /\ IsInteger(locals.baseScore)
        /\ locals.baseScore = WithoutExperience.baseScore

(***************************************************************************)
(* C22: the experience bonus lies between 0 and 0.3 times the experience    *)
(* weight, for levels above 5 and for negative levels too.                  *)
(***************************************************************************)
C22_BonusIsClamped ==
    WithExperience =>
        /\ LessEq(Num(0), locals.experienceBonus)
        /\ LessEq(locals.experienceBonus, Mul(Rat(3, 10), Rat(3, 10)))

(***************************************************************************)
(* C23: the project relevance score is the fraction of the first three      *)
(* canonical project skills that are exact or related matches (0 when the   *)
(* project lists no skill).                                                 *)
(***************************************************************************)
C23_RelevanceCountsMatchedSkills ==
    pc = "awaiting" =>
        SameNumber(locals.projectRelevanceScore,
                   FractionOfCritical(Elems(locals.exactMatches)
                                      \cup Elems(locals.relatedMatches)))

(***************************************************************************)
(* C24: baseScore is min(100, round(100 * (exactScore + relatedScore +      *)
(* categoryScore + experienceBonus + 0.6 * projectRelevance))), with the    *)
(* ratios weighted 1.0, 0.5 and 0.4, and so never exceeds 100.              *)
(***************************************************************************)
C24_BaseScoreIsClampedRoundedSum ==
    pc = "awaiting" =>
        /\ locals.exactScore =
               Mul(Div(Num(Len(locals.exactMatches)), Num(Len(projectSkills))), Num(1))
        /\ locals.relatedScore =
               Mul(Div(Num(Len(locals.relatedMatches)), Num(Len(projectSkills))), Rat(1, 2))
        /\ locals.categoryScore =
               Mul(Div(Num(Len(locals.categoryMatches)), Num(Len(projectSkills))), Rat(2, 5))
        /\ locals.baseScore = MathMin(Num(100), MathRound(Mul(WeightedSum, Num(100))))
        /\ ~Less(Num(100), locals.baseScore)

\* the weighted components sum to more than 1
C24_Witness ==
    /\ pc = "awaiting"
    /\ ~WeightedSum.nan
    /\ Less(Num(1), WeightedSum)
    /\ locals.baseScore = Num(100)

(***************************************************************************)
(* C25: every invocation that has ended made exactly one external call,     *)
(* and an invocation waiting for its call makes no second one.              *)
(***************************************************************************)
C25_ExactlyOneExternalCall ==
    pc \in {"awaiting", "returned", "threw"} => attempts = 1

\* an invocation that reached its await made one call, also after a rejection
AwaitedOnce == (pc \in {"awaiting", "returned"} \/ outcome # "none") => attempts = 1

(***************************************************************************)
(* C27: every invocation that reaches its external call eventually returns, *)
(* whether the call resolves, rejects or never settles.                     *)
(***************************************************************************)
C27_EveryCallReturns == (pc = "awaiting") ~> (pc = "returned")

(***************************************************************************)
(* C26: two invocations with the same arguments return the same             *)
(* matchedSkills, missingSkills, recommendations, skillBreakdown and        *)
(* matchDetails, whatever the outcome of their external calls.              *)
(***************************************************************************)
SameArguments(f, g) ==
    /\ f.userSkills = g.userSkills
    /\ f.projectSkills = g.projectSkills
    /\ f.userExperience = g.userExperience

C26_OutcomeReachesOnlyScoreAndAnalysis ==
    \A c, d \in Calls :
        (calls[c].pc = "returned" /\ calls[d].pc = "returned"
            /\ SameArguments(calls[c], calls[d]))
        => /\ calls[c].result.matchedSkills = calls[d].result.matchedSkills
           /\ calls[c].result.missingSkills = calls[d].result.missingSkills
           /\ calls[c].result.recommendations = calls[d].result.recommendations
           /\ calls[c].result.skillBreakdown = calls[d].result.skillBreakdown
           /\ calls[c].result.matchDetails = calls[d].result.matchDetails

\* the same arguments, one call rejected and one answered, and the scores differ
C26_Witness ==
    \E c, d \in Calls :
        /\ calls[c].pc = "returned" /\ calls[d].pc = "returned"
        /\ SameArguments(calls[c], calls[d])
        /\ calls[c].reply = Rejection
        /\ calls[d].reply.form = "object" /\ Truthy(calls[d].reply.score)
        /\ calls[c].result.score # calls[d].result.score
        /\ calls[c].result.analysis # calls[d].result.analysis
        /\ calls[c].result.recommendations # <<>>

(***************************************************************************)
(* C28: without an experience map and with a non-empty project list, a      *)
(* call with one more user skill that computes a base score computes one    *)
(* that is not lower, also when the skill turns a related match into an     *)
(* exact one.                                                               *)
(***************************************************************************)
AddedSkills == UserLabels \cup {Str("constructor")}

WithAdded(s) == LocalPart(Append(userSkills, s), projectSkills, userExperience)

C28_BaseScoreIsMonotone ==
    (pc = "awaiting" /\ ~userExperience.given /\ projectSkills # <<>>) =>
        \A s \in AddedSkills :
            \/ LocalRaises(Append(userSkills, s), projectSkills)
            \/ LessEq(locals.baseScore, WithAdded(s).baseScore)

\* the added skill turns a related match into an exact one and the score rises
C28_Witness ==
    /\ pc = "awaiting" /\ ~userExperience.given /\ projectSkills # <<>>
    /\ \E s \in AddedSkills :
           /\ ~LocalRaises(Append(userSkills, s), projectSkills)
           /\ Elems(locals.relatedMatches) \cap Elems(WithAdded(s).exactMatches) # {}
           /\ Less(locals.baseScore, WithAdded(s).baseScore)

(***************************************************************************)
(* ProjectList: the request dialog.  handleRequestToJoin and submitRequest  *)
(* are async handlers; their steps interleave at their awaits with the      *)
(* clicks of the user.  The dialog is modal: the project cards take clicks  *)
(* only while it is closed.  Nothing in the component resets error or       *)
(* matchAnalysis (handleSendInvite, which clears error on a timer, is not   *)
(* wired to any element).                                                   *)
(***************************************************************************)
scorerVars == <<pc, userSkills, projectSkills, userExperience, locals, outcome, aiAnalysis,
                result, attempts, calls>>

\* what the external call of one calculateMatch can end with
ListReplies ==
    {Rejection,
     [form |-> "null", raw |-> "", score |-> Undefined, analysis |-> NoText],
     [form |-> "object", raw |-> "", score |-> Num(150), analysis |-> RawText("Good fit")]}

\* lines 348-362: no request of the user for the project is known to the page
canRequestToJoin(project) == project \notin list.requested

\* a < b on numbers: false when either side is NaN or undefined
JsLess(a, b) == a.t = "number" /\ b.t = "number" /\ ~a.nan /\ ~b.nan /\ Less(a, b)

\* disabled={matchAnalysis.score < 40}
SubmitDisabled(score) == JsLess(score, Num(40))

\* lines 213-218: the click on Request to Join, up to the first await
HandleRequestToJoin ==
    /\ ~list.requestDialogOpen
    /\ \E project \in Projects, j \in Joins :
           /\ canRequestToJoin(project)
           /\ list.joins[j].pc = "idle"
           /\ list' = [list EXCEPT !.selectedProject = project,
                                   !.analyzing = TRUE,
                                   !.requestDialogOpen = TRUE,
                                   !.joins[j] = [pc |-> "getDoc", project |-> project]]
    /\ UNCHANGED scorerVars

\* lines 220-234: getDoc settles; without skills, or on a rejection, the catch
\* and finally blocks run; otherwise calculateMatch is called
JoinGetDocSettles ==
    /\ \E j \in Joins :
           /\ list.joins[j].pc = "getDoc"
           /\ \E got \in {"rejected", "no skills", "skills"} :
                  IF got = "skills"
                     /\ ~LocalRaises(ProfileSkills, extractedSkills(list.joins[j].project))
                  THEN list' = [list EXCEPT !.joins[j].pc = "calculateMatch"]
                  ELSE list' = [list EXCEPT !.error = got,
                                            !.analyzing = FALSE,
                                            !.joins[j] = IdleJoin]
    /\ UNCHANGED scorerVars

\* lines 229-251: calculateMatch settles; setMatchAnalysis or the catch block,
\* then the finally block
JoinCalculateMatchSettles ==
    /\ \E j \in Joins :
           /\ list.joins[j].pc = "calculateMatch"
           /\ \E reply \in ListReplies :
                  LET l == LocalPart(ProfileSkills, extractedSkills(list.joins[j].project),
                                     NoExperience)
                      matchResult == IF reply = Rejection
                                     THEN MatchResult(l, Fallback(l))
                                     ELSE MatchResult(l, Parsed(reply))
                  IN  IF reply # Rejection /\ Raises(Parsed(reply))
                      THEN list' = [list EXCEPT !.error = "TypeError",
                                                !.analyzing = FALSE,
                                                !.joins[j] = IdleJoin]
                      ELSE list' = [list EXCEPT
                                       !.matchAnalysis = [set |-> TRUE,
                                                          score |-> matchResult.score,
                                                          analysis |-> matchResult.analysis],
                                       !.analyzing = FALSE,
                                       !.joins[j] = IdleJoin]
    /\ UNCHANGED scorerVars

\* lines 679 and 793: onClose of the dialog, and its Cancel button
CloseDialog ==
    /\ list.requestDialogOpen
    /\ list' = [list EXCEPT !.requestDialogOpen = FALSE]
    /\ UNCHANGED scorerVars

\* lines 685-693 and 796-805: the button is rendered when the dialog shows the
\* analysis; lines 254-258: submitRequest runs to its first await with the
\* selectedProject and matchAnalysis of that render
ClickSubmit ==
    /\ list.requestDialogOpen
    /\ ~list.analyzing
    /\ list.error = "null"
    /\ list.matchAnalysis.set
    /\ ~SubmitDisabled(list.matchAnalysis.score)
    /\ list.selectedProject # 0
    /\ list.submit.pc = "idle"
    /\ list' = [list EXCEPT !.submit = [pc |-> "getDoc",
                                        projectId |-> list.selectedProject,
                                        matchScore |-> list.matchAnalysis.score,
                                        matchAnalysis |-> list.matchAnalysis.analysis]]
    /\ UNCHANGED scorerVars

\* lines 258-291: getDoc or the first addDoc rejects; or the request is written
\* and the notification fails; or both are written, the dialog closes and
\* loadProjects reads the requests back
SubmitRequestSettles ==
    /\ list.submit.pc = "getDoc"
    /\ LET request == [projectId |-> list.submit.projectId,
                       matchScore |-> list.submit.matchScore,
                       matchAnalysis |-> list.submit.matchAnalysis]
           written == list.project_requests \cup {request}
       IN  \E ended \in {"not written", "written", "notified"} :
               list' = IF ended = "not written"
                       THEN [list EXCEPT !.error = "Failed to submit request",
                                         !.submit = IdleSubmit]
                       ELSE IF ended = "written"
                       THEN [list EXCEPT !.error = "Failed to submit request",
                                         !.submit = IdleSubmit,
                                         !.project_requests = written]
                       ELSE [list EXCEPT !.requestDialogOpen = FALSE,
                                         !.submit = IdleSubmit,
                                         !.project_requests = written,
                                         !.requested = {r.projectId : r \in written}]
    /\ UNCHANGED scorerVars

NextList ==
    \/ HandleRequestToJoin
    \/ JoinGetDocSettles
    \/ JoinCalculateMatchSettles
    \/ CloseDialog
    \/ ClickSubmit
    \/ SubmitRequestSettles

SpecList == Init /\ [][NextList]_vars

(***************************************************************************)
(* Vocabulary of the properties of ProjectList.                             *)
(***************************************************************************)
\* the results calculateMatch can return for a project of the page
ResultsFor(project) ==
    LET l == LocalPart(ProfileSkills, extractedSkills(project), NoExperience)
    IN  {MatchResult(l, Fallback(l))}
        \cup {MatchResult(l, Parsed(reply)) :
                 reply \in {r \in ListReplies \ {Rejection} : ~Raises(Parsed(r))}}

ComputedFor(request, project) ==
    \E r \in ResultsFor(project) :
        r.score = request.matchScore /\ r.analysis = request.matchAnalysis

(***************************************************************************)
(* C29: every project_requests document carries a score and analysis that   *)
(* calculateMatch computed for the project named by its projectId.          *)
(***************************************************************************)
C29_RequestCarriesItsOwnProjectsMatch ==
    \A request \in list.project_requests : ComputedFor(request, request.projectId)

(***************************************************************************)
(* C30: submitRequest runs only on a displayed score that is a number of    *)
(* at least 40.                                                             *)
(***************************************************************************)
C30_SubmitNeedsScoreOfAtLeast40 ==
    list.submit.pc # "idle" =>
        /\ IsInteger(list.submit.matchScore)
        /\ list.submit.matchScore.num >= 40

====
